---------------------------- MODULE Spec2Model ----------------------------
(* A model of option_writer: the alert transport (telegram_alert.py), the  *)
(* alert batcher flush_alert_buffer_global, the scraper OptionChainScraper *)
(* and the driver (option_writer.py).                                      *)
(*                                                                         *)
(* Strings are TLA+ strings: Len counts characters and \o concatenates, so *)
(* "\n\n".join and the f-strings are computed as the code computes them.   *)
(* Prices are kept exactly, in thousandths: strikePrice / 100 is           *)
(* strikePrice * 10 thousandths and 0.905 * ltp is 905 * ltp thousandths.  *)
EXTENDS Integers, Sequences, FiniteSets, TLC

VARIABLES
    pc,             \* where the program is
    ALERT_BUFFER,   \* option_writer.py:14, the module-level list
    current_batch,  \* flush_alert_buffer_global: local
    current_len,    \* flush_alert_buffer_global: local
    max_len,        \* flush_alert_buffer_global: parameter
    msg_i,          \* flush_alert_buffer_global: position of the for loop
    flush_buf,      \* flush_alert_buffer_global: which list alert_buffer refers to
    flush_ret,      \* who called flush_alert_buffer_global
    flush_in,       \* history: the list's contents when the flush was entered
    sent,           \* history: the messages handed to alert_manager.send
    sent_batches,   \* history: the current_batch of every send of the flush
    n_posts,        \* history: requests.post calls made by TelegramAlert.send
    n_raised,       \* history: of those, the ones that raised
    n_flush,        \* history: calls of flush_alert_buffer_global
    ti,             \* driver: position in trackers_qty
    scraper,        \* the OptionChainScraper of the current ticker
    ei,             \* run: position of the for loop over expiry_dates
    expiry_error,   \* run: local
    run_trace,      \* history: the page fetches of the current run
    run_start,      \* history: what had been sent, buffered and flushed when run began
    appended,       \* history: who appended each alert
    last,           \* process_expiry: its locals when it last ended
    strike_in,      \* find_closest_strike: arguments
    strike_out      \* find_closest_strike: result

flushVars == <<current_batch, current_len, max_len, msg_i, flush_buf, flush_ret, flush_in>>
sendVars == <<sent, n_posts, n_raised>>
runVars == <<ti, scraper, ei, expiry_error, run_trace, run_start, appended, last>>
strikeVars == <<strike_in, strike_out>>
vars == <<pc, ALERT_BUFFER, flushVars, sendVars, sent_batches, n_flush, runVars, strikeVars>>

-----------------------------------------------------------------------------
(* Bounds of the model *)

MaxAlerts == 3
MaxMsgLen == 2
MaxLenBound == 4
MaxChain == 3
MaxTargetSteps == 8
MaxExpiries == 2

-----------------------------------------------------------------------------
(* Helpers *)

RECURSIVE Join(_, _)
\* sep.join(batch)
Join(sep, batch) ==
    IF batch = <<>> THEN ""
    ELSE IF Len(batch) = 1 THEN batch[1]
    ELSE batch[1] \o sep \o Join(sep, Tail(batch))

RECURSIVE Flatten(_)
Flatten(ss) == IF ss = <<>> THEN <<>> ELSE Head(ss) \o Flatten(Tail(ss))

RECURSIVE Repeat(_, _)
Repeat(c, n) == IF n = 0 THEN "" ELSE c \o Repeat(c, n - 1)

SeqsUpTo(S, n) == UNION {[1..k -> S] : k \in 0..n}

\* the alerts the batcher is tried on: distinct texts of every length
Msgs == {Repeat(c, n) : c \in {"a", "b"}, n \in 1..MaxMsgLen}

-----------------------------------------------------------------------------
(* telegram_alert.py *)

\* what requests.post can do
PostOutcomes == {"status200", "statusOther", "raises"}

TelegramSendPropagates(post) == IF post = "raises" THEN "raised" ELSE "returned"

\* TelegramAlert.send: how it ends for its caller
TelegramSend(post) == "returned"

\* TelegramAlert.send: the POSTs it makes
PostAttempts(post) == 1

\* alert_manager.send(message)
Send(message, post) ==
    /\ sent' = Append(sent, message)
    /\ n_posts' = n_posts + PostAttempts(post)
    /\ n_raised' = n_raised + (IF post = "raises" THEN PostAttempts(post) ELSE 0)

-----------------------------------------------------------------------------
(* flush_alert_buffer_global *)

DEFAULT_MAX_LEN == 3900

Deref(ref) == IF ref = "global" THEN ALERT_BUFFER ELSE scraper.own_buffer

\* the caller's next step
Return(ret) ==
    IF ret = "run" THEN pc' = "driver" /\ ti' = ti + 1
    ELSE pc' = "done" /\ ti' = ti

FlushOverflows(len, msg_len, limit) == len + msg_len > limit

FlushRestartEmpty(msg) == <<>>

FlushRestart(msg) == <<msg>>

FlushGrow(batch, msg) == Append(batch, msg)

\* lines 19-24
FlushEnter ==
    /\ pc = "flush_enter"
    /\ n_flush' = n_flush + 1
    /\ flush_in' = Deref(flush_buf)
    /\ IF Deref(flush_buf) = <<>>
       THEN /\ Return(flush_ret)
            /\ UNCHANGED <<current_batch, current_len, msg_i>>
       ELSE /\ pc' = "flush_loop"
            /\ current_batch' = <<>>
            /\ current_len' = 0
            /\ msg_i' = 1
            /\ ti' = ti
    /\ UNCHANGED <<ALERT_BUFFER, max_len, flush_buf, flush_ret, sendVars, sent_batches,
                   scraper, ei, expiry_error, run_trace, run_start, appended, last,
                   strikeVars>>

\* lines 26-35: one iteration of the for loop
FlushStep ==
    /\ pc = "flush_loop"
    /\ msg_i <= Len(Deref(flush_buf))
    /\ LET msg == Deref(flush_buf)[msg_i]
           msg_len == Len(msg)
       IN IF FlushOverflows(current_len, msg_len, max_len)
          THEN \E post \in PostOutcomes :
                /\ Send(Join("\n\n", current_batch), post)
                /\ sent_batches' = Append(sent_batches, current_batch)
                /\ IF TelegramSend(post) = "raised"
                   THEN /\ pc' = "crashed"
                        /\ UNCHANGED <<current_batch, current_len, msg_i>>
                   ELSE /\ pc' = "flush_loop"
                        /\ current_batch' = FlushRestart(msg)
                        /\ current_len' = msg_len
                        /\ msg_i' = msg_i + 1
          ELSE /\ current_batch' = FlushGrow(current_batch, msg)
               /\ current_len' = current_len + msg_len
               /\ msg_i' = msg_i + 1
               /\ UNCHANGED <<pc, sendVars, sent_batches>>
    /\ UNCHANGED <<ALERT_BUFFER, max_len, flush_buf, flush_ret, flush_in, n_flush,
                   runVars, strikeVars>>

\* lines 37-40: after the loop
FlushFinish ==
    /\ pc = "flush_loop"
    /\ msg_i > Len(Deref(flush_buf))
    /\ \E post \in PostOutcomes :
        /\ IF current_batch # <<>>
           THEN /\ Send(Join("\n\n", current_batch), post)
                /\ sent_batches' = Append(sent_batches, current_batch)
           ELSE /\ post = "status200"
                /\ UNCHANGED <<sendVars, sent_batches>>
        /\ IF current_batch # <<>> /\ TelegramSend(post) = "raised"
           THEN /\ pc' = "crashed"
                /\ UNCHANGED <<ALERT_BUFFER, scraper, ti>>
           ELSE /\ IF flush_buf = "global"
                   THEN ALERT_BUFFER' = <<>> /\ scraper' = scraper
                   ELSE scraper' = [scraper EXCEPT !.own_buffer = <<>>]
                        /\ ALERT_BUFFER' = ALERT_BUFFER
                /\ Return(flush_ret)
    /\ UNCHANGED <<flushVars, n_flush, ei, expiry_error, run_trace, run_start, appended,
                   last, strikeVars>>

-----------------------------------------------------------------------------
(* Option contracts and find_closest_strike *)

\* a contract's "pe" or "ce" entry; present = FALSE when the contract has none
Absent == [present |-> FALSE, longDisplayName |-> "", ltp |-> 0, oi |-> 0]

OptionData(name, ltp, oi) ==
    [present |-> TRUE, longDisplayName |-> name, ltp |-> ltp, oi |-> oi]

Contract(strikePrice, pe, ce) == [strikePrice |-> strikePrice, pe |-> pe, ce |-> ce]

NoContract == Contract(0, Absent, Absent)

PlainContract(s) ==
    Contract(s, OptionData(ToString(s) \o "PE", 0, 0), OptionData(ToString(s) \o "CE", 0, 0))

Abs(x) == IF x < 0 THEN -x ELSE x

\* c["strikePrice"] / 100, in thousandths
StrikeOf(c) == c.strikePrice * 10

RECURSIVE BisectLeft(_, _, _, _)
\* bisect.bisect_left(a, x): the 0-based insertion point
BisectLeft(a, x, lo, hi) ==
    IF lo < hi
    THEN LET mid == (lo + hi) \div 2
         IN IF a[mid + 1] < x THEN BisectLeft(a, x, mid + 1, hi)
            ELSE BisectLeft(a, x, lo, mid)
    ELSE lo

bisect_left(a, x) == BisectLeft(a, x, 0, Len(a))

find_closest_strike_before(option_chain, target_price) ==
    LET strikes == [i \in 1..Len(option_chain) |-> StrikeOf(option_chain[i])]
        pos == bisect_left(strikes, target_price)
    IN IF pos = 0 THEN option_chain[1]
       ELSE IF pos = Len(strikes) THEN option_chain[Len(option_chain)]
       ELSE option_chain[pos]

\* OptionChainScraper.find_closest_strike; target_price in thousandths
find_closest_strike(option_chain, target_price) ==
    LET strikes == [i \in 1..Len(option_chain) |-> StrikeOf(option_chain[i])]
        pos == bisect_left(strikes, target_price)
    IN IF pos = 0 THEN option_chain[1]
       ELSE IF pos = Len(strikes) THEN option_chain[Len(option_chain)]
       ELSE LET before == option_chain[pos]
                after == option_chain[pos + 1]
            IN IF Abs(StrikeOf(before) - target_price) <= Abs(StrikeOf(after) - target_price)
               THEN before
               ELSE after

IsSorted(a) == \A i \in 1..(Len(a) - 1) : a[i] <= a[i + 1]

\* strikePrice values of the chains find_closest_strike is tried on
StrikePrices == {100, 200, 300}

SortedChains ==
    {[i \in 1..Len(a) |-> PlainContract(a[i])] :
        a \in {b \in SeqsUpTo(StrikePrices, MaxChain) : b # <<>> /\ IsSorted(b)}}

\* targets in thousandths: below, between, on, halfway between and above the strikes
Targets == {500 * j : j \in 0..MaxTargetSteps}

FindClosestStrike ==
    /\ pc = "strike_call"
    /\ strike_out' = find_closest_strike(strike_in.option_chain, strike_in.target_price)
    /\ pc' = "strike_done"
    /\ UNCHANGED <<ALERT_BUFFER, flushVars, sendVars, sent_batches, n_flush, runVars,
                   strike_in>>

-----------------------------------------------------------------------------
NoScraper ==
    [stock_id |-> "", min_premium |-> 0, min_oi |-> 0, premium_lot_size |-> 0,
     use_global_buffer |-> TRUE, stock_name |-> "", ltp |-> 0, lot_size |-> 0,
     expiry_dates |-> <<>>, url |-> "", own_buffer |-> <<>>]

NoLast ==
    [valid |-> FALSE, page |-> "", raised |-> FALSE, nbefore |-> 0,
     put_present |-> FALSE, put_ltp |-> 0, put_oi |-> 0,
     call_present |-> FALSE, call_ltp |-> 0, call_oi |-> 0]

NoRunStart == [nsent |-> 0, nbuf |-> 0, nflush |-> 0]

NoStrike == [option_chain |-> <<>>, target_price |-> 0]

IdleRun ==
    /\ ti = 1 /\ scraper = NoScraper /\ ei = 1 /\ expiry_error = ""
    /\ run_trace = <<>> /\ run_start = NoRunStart /\ appended = <<>> /\ last = NoLast

IdleStrike == strike_in = NoStrike /\ strike_out = NoContract

-----------------------------------------------------------------------------
(* OptionChainScraper and the driver *)

\* the first entries of trackers_qty, in its order: the one ticker the driver
\* configures and one it leaves to the defaults
Tickers == <<"nifty", "infosys-ltd">>

\* trackers_qty[tracker]
trackers_qty(tracker) == IF tracker = "nifty" THEN <<780, 30000>> ELSE <<800>>

\* lines 263-271; None is 0, which is as falsy as None where the code tests it
DriverLotSize(tracker) ==
    IF tracker = "nifty" /\ Len(trackers_qty(tracker)) > 0 THEN trackers_qty(tracker)[1] ELSE 0

DriverMinPremium(tracker) ==
    IF tracker = "nifty" /\ Len(trackers_qty(tracker)) > 1 THEN trackers_qty(tracker)[2] ELSE 0

\* OptionChainScraper.__init__
NewScraper(stock_id, premium_lot_size, min_premium, use_global_buffer) ==
    [stock_id |-> stock_id,
     min_premium |-> IF min_premium # 0 THEN min_premium ELSE 4000,
     min_oi |-> 50,
     premium_lot_size |-> premium_lot_size,
     use_global_buffer |-> use_global_buffer,
     stock_name |-> "", ltp |-> 0, lot_size |-> 0,
     expiry_dates |-> <<>>, url |-> "", own_buffer |-> <<>>]

\* fetch_page_json: self.url
Url(stock_id, expiry) ==
    "https://groww.in/options/" \o stock_id
        \o (IF expiry # "" THEN "?expiry=" \o expiry ELSE "")

\* what the main page of a ticker holds when it is complete
PageName(stock_id) == IF stock_id = "nifty" THEN "NIFTY" ELSE "Infosys"
PageLtp(stock_id) == 1000
PageLotSize(stock_id) == IF stock_id = "nifty" THEN 75 ELSE 400
PageExpiries(n) == [i \in 1..n |-> "e" \o ToString(i)]

\* what fetch_page_json can come back with for the main page: {} (the request
\* failed or the page has no __NEXT_DATA__ script), a page lacking a key,
\* json.loads raising, or the complete page
InitPageKinds == {"no_data", "missing_key", "bad_json", "ok"}

\* and for the page of an expiry: {}, or a page with its option chain
ExpiryPageKinds == {"no_data", "ok"}

InitRaisesOnNoDataOnly(kind) == kind = "no_data"

\* initialize_stock_data raises RuntimeError (lines 98-99 and 113-114)
InitRaisesRuntimeError(kind) == kind \in {"no_data", "missing_key"}

InitErrorText(stock_id, kind) ==
    IF kind = "no_data" THEN "Failed to initialize " \o stock_id \o ", no data returned"
    ELSE "Could not parse stock data for " \o stock_id \o ": Missing 'props'"

\* line 188
FailureMessage(stock_id, kind) ==
    "Failed to initialize " \o stock_id \o ": " \o InitErrorText(stock_id, kind)

\* line 159
EffectiveLotSize(s) == IF s.premium_lot_size # 0 THEN s.premium_lot_size ELSE 2 * s.lot_size

AlertDueNonStrict(oi, premium, s) == oi >= s.min_oi /\ premium >= s.min_premium

\* lines 170 and 174
AlertDue(oi, premium, s) == oi > s.min_oi /\ premium > s.min_premium

\* lines 171 and 175; the leading emoji is written "!"
AlertMsg(s, expiry_date, data, premium) ==
    "! " \o s.stock_name \o " LTP " \o ToString(s.ltp) \o " | Expiry " \o expiry_date
        \o " | " \o data.longDisplayName \o " | Premium " \o ToString(premium)
        \o " | Lot " \o ToString(s.premium_lot_size) \o " | Price " \o ToString(data.ltp)
        \o " | OI " \o ToString(data.oi) \o " | " \o s.url

\* lines 163-167: the f-string reads ['pe']['longDisplayName'] and
\* ['ce']['longDisplayName'] whether or not the entries exist
LogLineRaises(closest_put, closest_call) ==
    ~closest_put.pe.present \/ ~closest_call.ce.present

LogLineError(closest_put, closest_call) ==
    IF ~closest_put.pe.present THEN "'pe'" ELSE "'ce'"

ExpiryLoopBreaks(i, raised, n) == IF raised THEN n + 1 ELSE i + 1

\* lines 193-199: the for loop goes on to the next expiry
ExpiryLoopNext(i, raised, n) == i + 1

RunFlushesWhenGlobal(s) == s.use_global_buffer

\* line 204
RunShouldFlush(s) == ~s.use_global_buffer

\* strikes of the option chains the pages hold: one contract, and contracts
\* below, at and above the last traded price
ChainShapes == {<<90000, 110000>>, <<90000, 100000, 110000>>}

\* the live data tried on a contract: none, both thresholds crossed, each threshold
\* exactly met with the other crossed
DataOptions(s) ==
    LET p0 == s.min_premium \div EffectiveLotSize(s)
    IN {[present |-> TRUE, ltp |-> d[1], oi |-> d[2]] :
            d \in {<<p0 + 1, s.min_oi + 1>>, <<p0 + 1, s.min_oi>>, <<p0, s.min_oi + 1>>}}
       \cup {[present |-> FALSE, ltp |-> 0, oi |-> 0]}

\* live data that crosses both thresholds by far
DecoyData(s) ==
    [present |-> TRUE, ltp |-> 2 * (s.min_premium \div EffectiveLotSize(s)) + 2,
     oi |-> 2 * s.min_oi]

Entry(strike, side, d) ==
    IF d.present THEN OptionData(ToString(strike \div 100) \o " " \o side, d.ltp, d.oi)
    ELSE Absent

\* a chain whose lowest strike carries the put data pd and whose highest strike the
\* call data cd; every other entry carries the data other
ChainOf(shape, pd, cd, other) ==
    [i \in 1..Len(shape) |->
        Contract(shape[i],
                 Entry(shape[i], "PE", IF i = 1 THEN pd ELSE other),
                 Entry(shape[i], "CE", IF i = Len(shape) THEN cd ELSE other))]

\* lines 261-273: the driver builds the scraper of the next ticker
DriverNext ==
    /\ pc = "driver"
    /\ ti <= Len(Tickers)
    /\ LET tracker == Tickers[ti]
       IN scraper' = NewScraper(tracker, DriverLotSize(tracker), DriverMinPremium(tracker), TRUE)
    /\ pc' = "run_init"
    /\ ei' = 1
    /\ expiry_error' = ""
    /\ run_trace' = <<>>
    /\ run_start' = [nsent |-> Len(sent), nbuf |-> Len(ALERT_BUFFER), nflush |-> n_flush]
    /\ last' = NoLast
    /\ UNCHANGED <<ALERT_BUFFER, flushVars, sendVars, sent_batches, n_flush, ti, appended,
                   strikeVars>>

\* run, lines 184-191: initialize_stock_data, and the message when it fails
RunInitialize ==
    /\ pc = "run_init"
    /\ \E kind \in InitPageKinds, n \in 0..MaxExpiries, post \in PostOutcomes :
        /\ run_trace' = <<[expiry |-> "", result |-> kind]>>
        /\ IF InitRaisesRuntimeError(kind)
           THEN /\ n = 0
                /\ Send(FailureMessage(scraper.stock_id, kind), post)
                /\ scraper' = NoScraper
                /\ IF TelegramSend(post) = "raised"
                   THEN pc' = "crashed" /\ ti' = ti
                   ELSE pc' = "driver" /\ ti' = ti + 1
           ELSE IF kind = "ok"
           THEN /\ post = "status200"
                /\ scraper' = [scraper EXCEPT !.url = Url(scraper.stock_id, ""),
                                              !.stock_name = PageName(scraper.stock_id),
                                              !.ltp = PageLtp(scraper.stock_id),
                                              !.lot_size = PageLotSize(scraper.stock_id),
                                              !.expiry_dates = PageExpiries(n)]
                /\ pc' = "run_loop"
                /\ UNCHANGED <<ti, sendVars>>
           ELSE /\ n = 0 /\ post = "status200"
                /\ scraper' = [scraper EXCEPT !.url = Url(scraper.stock_id, "")]
                /\ pc' = "crashed"
                /\ UNCHANGED <<ti, sendVars>>
    /\ UNCHANGED <<ALERT_BUFFER, flushVars, sent_batches, n_flush, ei, expiry_error,
                   run_start, appended, last, strikeVars>>

\* run, lines 193-199: one iteration of the loop, process_expiry and its handler
ProcessExpiry ==
    /\ pc = "run_loop"
    /\ ei <= Len(scraper.expiry_dates)
    /\ LET expiry_date == scraper.expiry_dates[ei]
           s1 == [scraper EXCEPT !.url = Url(scraper.stock_id, expiry_date)]
           buf == IF scraper.use_global_buffer THEN ALERT_BUFFER ELSE scraper.own_buffer
       IN \E kind \in ExpiryPageKinds :
           /\ run_trace' = Append(run_trace, [expiry |-> expiry_date, result |-> kind])
           /\ IF kind = "no_data"
              THEN /\ scraper' = s1
                   /\ last' = [NoLast EXCEPT !.valid = TRUE, !.page = kind,
                                             !.nbefore = Len(buf)]
                   /\ ei' = ExpiryLoopNext(ei, FALSE, Len(scraper.expiry_dates))
                   /\ UNCHANGED <<ALERT_BUFFER, expiry_error, appended>>
              ELSE \E shape \in ChainShapes :
                   \E pd \in DataOptions(s1), cd \in DataOptions(s1) :
                   \E option_chain \in {ChainOf(shape, pd, cd, DecoyData(s1))} :
                   \E closest_put \in {find_closest_strike(option_chain, 905 * s1.ltp)} :
                   \E closest_call \in {find_closest_strike(option_chain, 1095 * s1.ltp)} :
                   \E s2 \in {[s1 EXCEPT !.premium_lot_size = EffectiveLotSize(s1)]} :
                    LET put_ltp == IF closest_put.pe.present THEN closest_put.pe.ltp ELSE 0
                        call_ltp == IF closest_call.ce.present THEN closest_call.ce.ltp ELSE 0
                        put_oi == IF closest_put.pe.present THEN closest_put.pe.oi ELSE 0
                        call_oi == IF closest_call.ce.present THEN closest_call.ce.oi ELSE 0
                        put_premium == s2.premium_lot_size * put_ltp
                        call_premium == s2.premium_lot_size * call_ltp
                        raised == LogLineRaises(closest_put, closest_call)
                        put_alert == AlertDue(put_oi, put_premium, s2)
                        call_alert == AlertDue(call_oi, call_premium, s2)
                        who == (IF put_alert
                                THEN <<[stock_id |-> s2.stock_id, expiry |-> expiry_date,
                                        side |-> "put"]>>
                                ELSE <<>>)
                               \o (IF call_alert
                                   THEN <<[stock_id |-> s2.stock_id, expiry |-> expiry_date,
                                           side |-> "call"]>>
                                   ELSE <<>>)
                    IN /\ last' = [valid |-> TRUE, page |-> kind, raised |-> raised,
                                   nbefore |-> Len(buf),
                                   put_present |-> closest_put.pe.present,
                                   put_ltp |-> put_ltp, put_oi |-> put_oi,
                                   call_present |-> closest_call.ce.present,
                                   call_ltp |-> call_ltp, call_oi |-> call_oi]
                       /\ ei' = ExpiryLoopNext(ei, raised, Len(scraper.expiry_dates))
                       /\ IF raised
                          THEN /\ scraper' = s2
                               /\ expiry_error' = expiry_error
                                    \o "Exception during process_expiry(): "
                                    \o LogLineError(closest_put, closest_call)
                               /\ UNCHANGED <<ALERT_BUFFER, appended>>
                          ELSE \E new \in {(IF put_alert
                                             THEN <<AlertMsg(s2, expiry_date, closest_put.pe,
                                                             put_premium)>>
                                             ELSE <<>>)
                                            \o (IF call_alert
                                                THEN <<AlertMsg(s2, expiry_date,
                                                                closest_call.ce, call_premium)>>
                                                ELSE <<>>)} :
                               /\ IF s2.use_global_buffer
                                  THEN /\ ALERT_BUFFER' = ALERT_BUFFER \o new
                                       /\ scraper' = s2
                                  ELSE /\ scraper' = [s2 EXCEPT !.own_buffer = @ \o new]
                                       /\ ALERT_BUFFER' = ALERT_BUFFER
                               /\ appended' = appended \o who
                               /\ expiry_error' = expiry_error
    /\ UNCHANGED <<pc, flushVars, sendVars, sent_batches, n_flush, ti, run_start,
                   strikeVars>>

\* run, lines 201-205: after the loop. When run returns, its locals and the
\* scraper are dead: they are reset
RunEnd ==
    /\ pc = "run_loop"
    /\ ei > Len(scraper.expiry_dates)
    /\ \E post \in PostOutcomes :
        /\ IF expiry_error # ""
           THEN Send(expiry_error, post)
           ELSE post = "status200" /\ UNCHANGED sendVars
        /\ IF expiry_error # "" /\ TelegramSend(post) = "raised"
           THEN /\ pc' = "crashed"
                /\ UNCHANGED <<ti, max_len, flush_buf, flush_ret, scraper, ei, expiry_error,
                               run_trace>>
           ELSE IF RunShouldFlush(scraper)
           THEN /\ pc' = "flush_enter"
                /\ flush_buf' = IF scraper.use_global_buffer THEN "global" ELSE "own"
                /\ flush_ret' = "run"
                /\ max_len' = DEFAULT_MAX_LEN
                /\ UNCHANGED <<ti, scraper, ei, expiry_error, run_trace>>
           ELSE /\ pc' = "driver"
                /\ ti' = ti + 1
                /\ scraper' = NoScraper
                /\ ei' = 1
                /\ expiry_error' = ""
                /\ run_trace' = <<>>
                /\ UNCHANGED <<max_len, flush_buf, flush_ret>>
    /\ last' = NoLast
    /\ UNCHANGED <<ALERT_BUFFER, current_batch, current_len, msg_i, flush_in, sent_batches,
                   n_flush, run_start, appended, strikeVars>>

\* lines 277-278: the driver's flush of ALERT_BUFFER, after the last ticker
DriverFlush ==
    /\ pc = "driver"
    /\ ti > Len(Tickers)
    /\ pc' = "flush_enter"
    /\ flush_buf' = "global"
    /\ flush_ret' = "driver"
    /\ max_len' = DEFAULT_MAX_LEN
    /\ run_trace' = <<>>
    /\ UNCHANGED <<ALERT_BUFFER, current_batch, current_len, msg_i, flush_in, sendVars,
                   sent_batches, n_flush, ti, scraper, ei, expiry_error, run_start, appended,
                   last, strikeVars>>

-----------------------------------------------------------------------------
(* The batcher alone: every buffer and every max_len of the bounds *)
InitFlush ==
    /\ pc = "flush_enter"
    /\ ALERT_BUFFER \in SeqsUpTo(Msgs, MaxAlerts)
    /\ max_len \in 1..MaxLenBound
    /\ current_batch = <<>> /\ current_len = 0 /\ msg_i = 1
    /\ flush_buf = "global" /\ flush_ret = "caller" /\ flush_in = <<>>
    /\ sent = <<>> /\ sent_batches = <<>> /\ n_posts = 0 /\ n_raised = 0
    /\ n_flush = 0
    /\ IdleRun /\ IdleStrike

NextFlush == FlushEnter \/ FlushStep \/ FlushFinish

SpecFlush == InitFlush /\ [][NextFlush]_vars

IdleFlush ==
    /\ ALERT_BUFFER = <<>> /\ max_len = DEFAULT_MAX_LEN
    /\ current_batch = <<>> /\ current_len = 0 /\ msg_i = 1
    /\ flush_buf = "global" /\ flush_ret = "caller" /\ flush_in = <<>>
    /\ sent = <<>> /\ sent_batches = <<>> /\ n_posts = 0 /\ n_raised = 0
    /\ n_flush = 0

(* find_closest_strike alone: every sorted chain and target of the bounds *)
InitStrike ==
    /\ pc = "strike_call"
    /\ strike_in \in [option_chain : SortedChains, target_price : Targets]
    /\ strike_out = NoContract
    /\ IdleFlush /\ IdleRun

NextStrike == FindClosestStrike

SpecStrike == InitStrike /\ [][NextStrike]_vars

(* The program: the driver over the tickers, then the flush *)
Init ==
    /\ pc = "driver"
    /\ IdleFlush /\ IdleRun /\ IdleStrike

Next ==
    \/ DriverNext
    \/ RunInitialize
    \/ ProcessExpiry
    \/ RunEnd
    \/ DriverFlush
    \/ FlushEnter
    \/ FlushStep
    \/ FlushFinish

Spec == Init /\ [][Next]_vars

-----------------------------------------------------------------------------
(* Claims about flush_alert_buffer_global and TelegramAlert.send (SpecFlush) *)

FlushReturned == pc = "done"

\* C1: every string the flush passes to alert_manager.send has at most max_len
\* characters.
C1_SentWithinMaxLen == \A i \in 1..Len(sent) : Len(sent[i]) <= max_len

\* C9: the flush loses, duplicates and reorders nothing: during the loop the batches
\* sent and the batch being built hold exactly the alerts read so far, in order; on
\* return the batches sent hold exactly the buffered alerts, in order, each message
\* sent is its batch joined, and the buffer is empty; for an empty buffer nothing is
\* sent.
C9_FlushKeepsEveryAlert ==
    /\ pc = "flush_loop" =>
        Flatten(sent_batches) \o current_batch = SubSeq(flush_in, 1, msg_i - 1)
    /\ FlushReturned =>
        /\ Flatten(sent_batches) = flush_in
        /\ ALERT_BUFFER = <<>>
        /\ Len(sent) = Len(sent_batches)
        /\ \A i \in 1..Len(sent) : sent[i] = Join("\n\n", sent_batches[i])
        /\ flush_in = <<>> => sent = <<>>

C9_Witness ==
    /\ FlushReturned
    /\ Len(flush_in) = 3
    /\ Len(sent_batches) >= 2
    /\ \E i \in 1..Len(sent_batches) : Len(sent_batches[i]) = 2

\* C10: the flush never hands the transport an empty batch.
C10_NoEmptyBatch == \A i \in 1..Len(sent_batches) : sent_batches[i] # <<>>

\* C5: TelegramAlert.send returns normally whatever the POST does and makes one POST
\* per call, so the flush is never cut short: it returns with every buffered alert
\* sent and the buffer cleared, however many of its sends failed.
C5_SendFailsSoft ==
    /\ pc # "crashed"
    /\ n_posts = Len(sent)
    /\ n_raised <= n_posts
    /\ (FlushReturned /\ flush_in # <<>>) =>
        /\ Len(Flatten(sent_batches)) = Len(flush_in)
        /\ Deref(flush_buf) = <<>>

C5_Witness ==
    /\ FlushReturned
    /\ n_posts >= 2
    /\ n_raised = n_posts

-----------------------------------------------------------------------------
(* Claim about find_closest_strike (SpecStrike) *)

Distance(c, target_price) == Abs(StrikeOf(c) - target_price)

\* C2: for a non-empty chain sorted ascending by strikePrice, find_closest_strike
\* returns a contract of the chain whose distance to the target is minimal.
C2_ClosestStrikeIsMinimal ==
    pc = "strike_done" =>
        LET chain == strike_in.option_chain
            t == strike_in.target_price
        IN /\ \E i \in 1..Len(chain) : chain[i] = strike_out
           /\ \A i \in 1..Len(chain) : Distance(strike_out, t) <= Distance(chain[i], t)

\* a target strictly inside the chain and nearer to the strike after it
C2_Witness ==
    /\ pc = "strike_done"
    /\ Len(strike_in.option_chain) = 3
    /\ StrikeOf(strike_in.option_chain[1]) < strike_in.target_price
    /\ strike_in.target_price < StrikeOf(strike_in.option_chain[3])
    /\ strike_out = strike_in.option_chain[3]
    /\ strike_out # strike_in.option_chain[2]

-----------------------------------------------------------------------------
(* Claims about the scraper and the driver (Spec) *)

TickerIndex(stock_id) == CHOOSE i \in 1..Len(Tickers) : Tickers[i] = stock_id

\* C3: in the driver no run flushes the buffer: until the last run has returned
\* nothing is flushed and every alert appended is in ALERT_BUFFER, the one shared
\* list, in ticker order; the buffer is flushed once, after the last ticker, with
\* every alert in it.
C3_OneFlushAfterLastTicker ==
    /\ n_flush <= 1
    /\ pc \in {"driver", "run_init", "run_loop", "flush_enter"} =>
        /\ n_flush = 0
        /\ Len(ALERT_BUFFER) = Len(appended)
        /\ scraper.own_buffer = <<>>
    /\ pc \in {"run_init", "run_loop"} => ti <= Len(Tickers)
    /\ pc = "flush_enter" => ti > Len(Tickers)
    /\ n_flush = 1 => ti > Len(Tickers) /\ Len(flush_in) = Len(appended)
    /\ pc = "done" => n_flush = 1
    /\ \A i \in 1..Len(appended) : \A j \in i..Len(appended) :
        TickerIndex(appended[i].stock_id) <= TickerIndex(appended[j].stock_id)

C3_Witness ==
    /\ pc = "done"
    /\ n_flush = 1
    /\ \E i \in 1..Len(appended) : appended[i].stock_id = Tickers[1]
    /\ \E i \in 1..Len(appended) : appended[i].stock_id = Tickers[2]
    /\ Len(flush_in) >= 3

\* C4: after a successful initialization the loop of run fetches the page of every
\* expiry once, in list order, one expiry after the other whatever happened to the
\* earlier ones: at each point of the loop the fetches made are the initial one and
\* one for each of the first ei - 1 expiries, and the loop ends only after the last.
C4_EveryExpiryFetchedOnce ==
    pc = "run_loop" =>
        /\ ei \in 1..(Len(scraper.expiry_dates) + 1)
        /\ Len(run_trace) = ei
        /\ run_trace[1] = [expiry |-> "", result |-> "ok"]
        /\ \A k \in 2..Len(run_trace) : run_trace[k].expiry = scraper.expiry_dates[k - 1]
        /\ ei > Len(scraper.expiry_dates) =>
            [k \in 1..(Len(run_trace) - 1) |-> run_trace[k + 1].expiry] = scraper.expiry_dates

\* the first expiry raised, the second was fetched and appended an alert
C4_Witness ==
    /\ pc = "run_loop"
    /\ Len(scraper.expiry_dates) = 2
    /\ ei = 3
    /\ expiry_error # ""
    /\ run_trace[2].result = "ok"
    /\ run_trace[3].result = "ok"
    /\ last.valid /\ ~last.raised
    /\ Len(ALERT_BUFFER) > last.nbefore

ProcessedOk == pc = "run_loop" /\ last.valid /\ last.page = "ok"

NewSides == [k \in 1..(Len(appended) - last.nbefore) |-> appended[last.nbefore + k].side]

PutCrossed ==
    /\ last.put_oi > scraper.min_oi
    /\ scraper.premium_lot_size * last.put_ltp > scraper.min_premium

CallCrossed ==
    /\ last.call_oi > scraper.min_oi
    /\ scraper.premium_lot_size * last.call_ltp > scraper.min_premium

ExpectedSides ==
    (IF PutCrossed THEN <<"put">> ELSE <<>>) \o (IF CallCrossed THEN <<"call">> ELSE <<>>)

\* C6: for an expiry whose page is fetched and whose selected contracts carry pe and
\* ce data, process_expiry appends a put alert iff put_oi > min_oi and
\* premium_lot_size * put_ltp > min_premium, a call alert iff the same holds of the
\* call side, the put alert first, and nothing else.
C6_AlertsIffThresholdsCrossed ==
    (ProcessedOk /\ last.put_present /\ last.call_present) =>
        /\ ~last.raised
        /\ Len(ALERT_BUFFER) - last.nbefore = Len(ExpectedSides)
        /\ NewSides = ExpectedSides

\* the put side crosses both thresholds, the call side's premium is exactly
\* min_premium
C6_Witness ==
    /\ ProcessedOk /\ last.put_present /\ last.call_present
    /\ PutCrossed
    /\ last.call_oi > scraper.min_oi
    /\ scraper.premium_lot_size * last.call_ltp = scraper.min_premium
    /\ NewSides = <<"put">>

InitFailed == run_trace # <<>> /\ run_trace[1].result \in {"no_data", "missing_key"}

\* C7: when the initial fetch returns no data or the page lacks a key, run sends
\* one failure message and returns: no expiry is fetched, nothing is appended to the
\* buffer and the buffer is not flushed.
C7_InitFailureSendsOneMessage ==
    InitFailed =>
        /\ pc = "driver"
        /\ Len(run_trace) = 1
        /\ Len(sent) = run_start.nsent + 1
        /\ sent[Len(sent)] = FailureMessage(Tickers[ti - 1], run_trace[1].result)
        /\ Len(ALERT_BUFFER) = run_start.nbuf
        /\ Len(appended) = run_start.nbuf
        /\ n_flush = run_start.nflush

\* the second ticker's page lacks a key, after the first ticker appended alerts
C7_Witness ==
    /\ InitFailed
    /\ run_trace[1].result = "missing_key"
    /\ ti = 3
    /\ ALERT_BUFFER # <<>>

\* C8: when the contract selected for the put side has no "pe" entry, or the one for
\* the call side no "ce" entry, process_expiry takes that side's price and open
\* interest as 0, raises no error and appends the other side's alert when its
\* thresholds are crossed.
C8_MissingEntryIsSafe ==
    (ProcessedOk /\ (~last.put_present \/ ~last.call_present)) =>
        /\ ~last.put_present => last.put_ltp = 0 /\ last.put_oi = 0
        /\ ~last.call_present => last.call_ltp = 0 /\ last.call_oi = 0
        /\ ~last.raised
        /\ NewSides = ExpectedSides

=============================================================================
